---- MODULE Spec2Model ----
(***************************************************************************)
(* AlgoBlocks: the strategy evaluation and backtesting engine.             *)
(*                                                                         *)
(*   utils/strategy.py   execute_strategy, generate_signals,               *)
(*                       evaluate_condition                                *)
(*   utils/backtest.py   run_backtest, calculate_performance_metrics       *)
(*                                                                         *)
(* One call of run_backtest is a run of the state machine: the call's      *)
(* arguments are chosen in Init, ExecuteStrategy is lines 27-38 of         *)
(* run_backtest, LoopBody is one iteration of its bar loop, Finish is      *)
(* lines 97-119.                                                           *)
(*                                                                         *)
(* Money.  The code computes in floating point; the model computes in      *)
(* exact arithmetic.  A commission rate is commission/CommDen, and every   *)
(* amount of money (capital, equity, value, commission fee, pnl) is held   *)
(* in units of 1/CommDen, so that all of them are integers.  Prices and    *)
(* share counts are held as they are.                                      *)
(*                                                                         *)
(* Text.  A condition string is held as the sequence of its lexemes with   *)
(* the blanks dropped: an operand (a column name or a numeral) is one      *)
(* lexeme, and each of the characters > < = is one lexeme, so that         *)
(* "Close >= 11" is <<"Close", ">", "=", "11">>.                           *)
(***************************************************************************)
EXTENDS Integers, Sequences, FiniteSets, TLC

VARIABLES
    data,             \* argument: the price table (column name -> series)
    strategy,         \* argument: [blocks, connections]
    initial_capital,  \* argument, in currency units
    commission,       \* argument: the rate is commission / CommDen
    risk_per_trade,   \* argument of the paper trading simulation only: the
                      \* fraction is risk_per_trade / RiskDen
    pc,               \* "idle", "start", "loop", "done", "raised": the call
    df,               \* run_backtest's df after execute_strategy
    i,                \* index of the next bar of the loop, 1-based
    position,         \* 0 = no position, 1 = long
    capital,          \* cash, in units of 1/CommDen
    shares,
    entry_price,
    trades,           \* the trade log
    equity,           \* the equity points
    final_equity,     \* in units of 1/CommDen
    metrics,          \* the metrics dict
    prev,             \* the trades and equity an earlier call returned
    trade_stats,      \* performance dashboard: the result of analyze_trades
    canvas_blocks,        \* st.session_state.canvas_blocks
    canvas_connections,   \* st.session_state.canvas_connections
    session_strategy,     \* st.session_state.strategy, once saved
    blocks_aliased,       \* strategy['blocks'] is the list canvas_blocks
    connections_aliased,  \* strategy['connections'] is canvas_connections
    uuid,                 \* the number of ids drawn from uuid4 so far
    validation,           \* the messages 'Validate Strategy' has on display
    strategy_name,        \* the value of the 'Strategy Name' text field
    exported_file,        \* the last strategy document downloaded
    create_args,          \* the arguments of a direct call of create_block
    created               \* what that call returned

vars == <<data, strategy, initial_capital, commission, risk_per_trade, pc, df, i, position,
          capital, shares, entry_price, trades, equity, final_equity,
          metrics, prev, trade_stats, canvas_blocks, canvas_connections,
          session_strategy, blocks_aliased, connections_aliased, uuid,
          validation, strategy_name, exported_file, create_args, created>>

\* The strategy builder's part of the session
Builder == <<canvas_blocks, canvas_connections, session_strategy,
             blocks_aliased, connections_aliased, uuid, validation,
             strategy_name, exported_file>>

\* A direct call of create_block
CreateCall == <<create_args, created>>

\* The state of the session outside the call of run_backtest
Session == <<trade_stats, Builder, CreateCall>>

----------------------------------------------------------------------------
(* Bounds of the model *)

MaxBars == 4

\* components/paper_trading.py line 33: the page divides the percentage by
\* 100; line 91: the default of the argument is 0.01
RiskDen == 100

DefaultRisk == 1

CommDen == 10

Prices == {10, 11, 12}

InitialCapitals == {5, 25, 1000}

Commissions == {0, 1}

----------------------------------------------------------------------------
(* Generic helpers *)

RECURSIVE SumSeq(_)
SumSeq(s) == IF s = <<>> THEN 0 ELSE Head(s) + SumSeq(Tail(s))

SeqsUpTo(S, n) == UNION {[1..k -> S] : k \in 0..n}

Range(s) == {s[k] : k \in DOMAIN s}

----------------------------------------------------------------------------
(* Python text operations on a lexeme sequence *)

\* sep in s
Contains(s, sep) ==
    \E k \in 1..(Len(s) - Len(sep) + 1) : SubSeq(s, k, k + Len(sep) - 1) = sep

\* s.split(sep): cut at every occurrence of sep, scanning from the left
RECURSIVE Split(_, _)
Split(s, sep) ==
    IF Contains(s, sep)
    THEN LET k == CHOOSE k \in 1..(Len(s) - Len(sep) + 1) :
                    /\ SubSeq(s, k, k + Len(sep) - 1) = sep
                    /\ \A j \in 1..(k - 1) : SubSeq(s, j, j + Len(sep) - 1) # sep
         IN  <<SubSeq(s, 1, k - 1)>> \o Split(SubSeq(s, k + Len(sep), Len(s)), sep)
    ELSE <<s>>

\* The numerals of the model and float() of each
Numerals == ("9" :> 9) @@ ("10" :> 10) @@ ("11" :> 11) @@ ("12" :> 12) @@ ("1" :> 1)

\* float(part) returns (does not raise ValueError)
IsFloat(part) == Len(part) = 1 /\ part[1] \in DOMAIN Numerals

Float(part) == Numerals[part[1]]

\* part in df.columns
IsColumn(table, part) == Len(part) = 1 /\ part[1] \in DOMAIN table

Column(table, part) == table[part[1]]

----------------------------------------------------------------------------
(* utils/strategy.py *)

NoneValue == [kind |-> "None"]

SeriesValue(s) == [kind |-> "Series", values |-> s]

NumBars(table) == Len(table["Close"])

Cmp(op, a, b) ==
    CASE op = ">"  -> a > b
      [] op = "<"  -> a < b
      [] op = "==" -> a = b

\* One branch of evaluate_condition: the split, the strip and the three
\* operand cases.  An exception (the unpacking of other than two parts, a
\* float() of a non-numeral) is caught at line 210 and gives None; so does
\* falling through the three cases.
CompareBranch(table, parts, op) ==
    IF Len(parts) # 2 THEN NoneValue
    ELSE LET left  == parts[1]
             right == parts[2]
             n     == NumBars(table)
         IN  IF IsColumn(table, left) /\ IsColumn(table, right)
             THEN SeriesValue([k \in 1..n |->
                      Cmp(op, Column(table, left)[k], Column(table, right)[k])])
             ELSE IF IsColumn(table, left)
             THEN IF IsFloat(right)
                  THEN SeriesValue([k \in 1..n |->
                           Cmp(op, Column(table, left)[k], Float(right))])
                  ELSE NoneValue
             ELSE IF IsColumn(table, right)
             THEN IF IsFloat(left)
                  THEN SeriesValue([k \in 1..n |->
                           Cmp(op, Float(left), Column(table, right)[k])])
                  ELSE NoneValue
             ELSE NoneValue

evaluate_condition(table, condition) ==
    IF Contains(condition, <<">">>)
    THEN CompareBranch(table, Split(condition, <<">">>), ">")
    ELSE IF Contains(condition, <<"<">>)
    THEN CompareBranch(table, Split(condition, <<"<">>), "<")
    ELSE IF Contains(condition, <<"=", "=">>)
    THEN CompareBranch(table, Split(condition, <<"=", "=">>), "==")
    ELSE NoneValue

\* block.get('params', {}).get('condition'); <<>> stands for None and ''
ConditionOf(block) ==
    IF "condition" \in DOMAIN block.params THEN block.params.condition ELSE <<>>

\* result.loc[signal, col] = 1
SetWhere(table, col, signal) ==
    (col :> [k \in 1..NumBars(table) |->
                IF signal[k] THEN 1 ELSE table[col][k]]) @@ table

\* One of the two loops of generate_signals, over the blocks in list order
RECURSIVE ProcessConditions(_, _, _)
ProcessConditions(table, blocks, col) ==
    IF blocks = <<>> THEN table
    ELSE LET condition == ConditionOf(Head(blocks))
             signal    == evaluate_condition(table, condition)
             next      == IF condition # <<>> /\ signal.kind # "None"
                          THEN SetWhere(table, col, signal.values)
                          ELSE table
         IN  ProcessConditions(next, Tail(blocks), col)

BlocksOfType(blocks, type) ==
    LET Test(b) == b.type = type IN SelectSeq(blocks, Test)

generate_signals(table, strat) ==
    LET n            == NumBars(table)
        result       == ("signal" :> [k \in 1..n |-> 0])
                        @@ ("exit_signal" :> [k \in 1..n |-> 0]) @@ table
        entry_blocks == BlocksOfType(strat.blocks, "entry_condition")
        exit_blocks  == BlocksOfType(strat.blocks, "exit_condition")
        afterEntry   == ProcessConditions(result, entry_blocks, "signal")
    IN  ProcessConditions(afterEntry, exit_blocks, "exit_signal")

\* utils/indicators.py, add_rsi (lines 58-73), on the Close column.  A cell
\* is a fraction, 0/0 for NaN.  gain and loss are 0 on the first bar, whose
\* delta is NaN; the rolling means are NaN before bar `period`; from there
\* 100 - 100 / (1 + avg_gain / avg_loss) is 100 * gain / (gain + loss) over
\* the window, which is 100 without a loss and NaN without gain and loss.
RsiColumn(period) == "RSI_" \o ToString(period)

add_rsi(table, period) ==
    LET close == table["Close"]
        Delta(k) == IF k >= 2 THEN close[k] - close[k - 1] ELSE 0
        Gain(k) == IF Delta(k) > 0 THEN Delta(k) ELSE 0
        Loss(k) == IF Delta(k) < 0 THEN -Delta(k) ELSE 0
        gains(k)  == SumSeq([j \in 1..period |-> Gain(k - period + j)])
        losses(k) == SumSeq([j \in 1..period |-> Loss(k - period + j)])
    IN  (RsiColumn(period) :>
            [k \in 1..Len(close) |->
                IF k < period THEN [num |-> 0, den |-> 0]
                ELSE [num |-> 100 * gains(k), den |-> gains(k) + losses(k)]])
        @@ table

\* rolling(window=period) of a negative period raises a ValueError
RsiRaises(period) == period < 0

\* block.get('params', {}).get('period', 14)
PeriodOf(block) ==
    IF "period" \in DOMAIN block.params THEN block.params["period"] ELSE 14

\* The loop of add_indicators_from_blocks (lines 57-88).  Of the six
\* indicator types (moving_average, rsi, bollinger_bands, macd, atr,
\* stochastic) the strategies of the model carry rsi blocks only; a block
\* of a type that is no indicator matches no branch and leaves the table
\* as it is.
RECURSIVE add_indicators_from_blocks(_, _)
add_indicators_from_blocks(table, blocks) ==
    IF blocks = <<>> THEN table
    ELSE IF Head(blocks).type = "rsi"
    THEN add_indicators_from_blocks(add_rsi(table, PeriodOf(Head(blocks))),
                                    Tail(blocks))
    ELSE add_indicators_from_blocks(table, Tail(blocks))

\* The call raises: an indicator of the strategy does
ExecuteRaises(strat) ==
    \E b \in Range(strat.blocks) : b.type = "rsi" /\ RsiRaises(PeriodOf(b))

\* lines 24-37, for a strategy on which no indicator raises
execute_strategy(table, strat) ==
    IF strat.blocks = <<>>
    THEN ("signal" :> [k \in 1..NumBars(table) |-> 0]) @@ table
    ELSE generate_signals(add_indicators_from_blocks(table, strat.blocks), strat)

----------------------------------------------------------------------------
(* utils/backtest.py: run_backtest *)

\* row.get(col, default) of bar k
RowGet(table, k, col, default) ==
    IF col \in DOMAIN table THEN table[col][k] ELSE default

\* A buy that does not look at the position
BuySignalAnyPosition(table, k, pos) ==
    RowGet(table, k, "signal", 0) = 1

\* A buy decided on the signal of the bar after k
BuySignalOfNextBar(table, k, pos) ==
    /\ RowGet(table, IF k < NumBars(table) THEN k + 1 ELSE k, "signal", 0) = 1
    /\ pos = 0

\* line 53
BuySignal(table, k, pos) ==
    RowGet(table, k, "signal", 0) = 1 /\ pos = 0

\* A sell that does not look at the position
SellSignalAnyPosition(table, k, pos) ==
    \/ RowGet(table, k, "signal", 0) = -1
    \/ RowGet(table, k, "exit_signal", 0) = 1

\* A sell that gives way to an entry signal on the same bar
SellSignalUnlessEntry(table, k, pos) ==
    /\ \/ RowGet(table, k, "signal", 0) = -1
       \/ RowGet(table, k, "exit_signal", 0) = 1
    /\ RowGet(table, k, "signal", 0) # 1
    /\ pos = 1

\* A sell on every bar without an entry signal, as if such a bar carried
\* signal = -1
SellSignalOnIdleBar(table, k, pos) ==
    /\ \/ RowGet(table, k, "signal", 0) # 1
       \/ RowGet(table, k, "exit_signal", 0) = 1
    /\ pos = 1

\* line 73
SellSignal(table, k, pos) ==
    /\ \/ RowGet(table, k, "signal", 0) = -1
       \/ RowGet(table, k, "exit_signal", 0) = 1
    /\ pos = 1

\* A share count rounded up instead of down
SharesToBuyRoundedUp(cap, comm, close) ==
    (cap * (CommDen - comm) + CommDen * CommDen * close - 1)
        \div (CommDen * CommDen * close)

\* Shares bought with the whole capital, no commission held back
SharesToBuyBeforeCommission(cap, comm, close) == cap \div (CommDen * close)

\* line 55: (capital * (1 - commission)) // close, capital in 1/CommDen
SharesToBuy(cap, comm, close) ==
    (cap * (CommDen - comm)) \div (CommDen * CommDen * close)

\* line 60: shares * close * (1 + commission), in 1/CommDen
BuyCost(sh, close, comm) == sh * close * (CommDen + comm)

\* line 75: shares * close * (1 - commission), in 1/CommDen
SellProceeds(sh, close, comm) == sh * close * (CommDen - comm)

\* lines 43-45
EquityValue(pos, cap, sh, close) ==
    IF pos = 1 THEN cap + sh * close * CommDen ELSE cap

\* lines 47-50: the curve after the point of bar k is recorded
RecordEquityOnChange(eq, k, value) ==
    IF Len(eq) > 0 /\ eq[Len(eq)].equity = value
    THEN eq
    ELSE Append(eq, [date |-> k, equity |-> value])

RecordEquity(eq, k, value) == Append(eq, [date |-> k, equity |-> value])

\* lines 63-70
BuyTrade(k, close, sh, comm) ==
    [type |-> "buy", date |-> k, price |-> close, shares |-> sh,
     value |-> sh * close * CommDen, commission |-> sh * close * comm]

\* A sell record whose pnl leaves out the commission paid on entry
SellTradeExitCommissionOnly(k, close, sh, entry, comm) ==
    [type |-> "sell", date |-> k, price |-> close, shares |-> sh,
     value |-> sh * close * CommDen, commission |-> sh * close * comm,
     pnl |-> sh * (close - entry) * CommDen - sh * close * comm,
     pnl_pct |-> (close - entry) * 100 * CommDen - comm * 2 * 100 * entry]

\* lines 78-90.  pnl is in 1/CommDen; pnl_pct is held as the numerator of
\* the fraction over entry * CommDen.
SellTrade(k, close, sh, entry, comm) ==
    [type |-> "sell", date |-> k, price |-> close, shares |-> sh,
     value |-> sh * close * CommDen, commission |-> sh * close * comm,
     pnl |-> sh * (close - entry) * CommDen - sh * close * comm
             - sh * entry * comm,
     pnl_pct |-> (close - entry) * 100 * CommDen - comm * 2 * 100 * entry]

----------------------------------------------------------------------------
(* utils/backtest.py: calculate_performance_metrics *)

\* A number that need not be an integer is held as a fraction num/den;
\* den = 0 stands for the non-finite results of a float division by zero.
Frac(n, d) == [num |-> n, den |-> d]

\* lines 143-153
ZeroMetrics ==
    [total_return |-> Frac(0, 1), total_trades |-> 0, winning_trades |-> 0,
     losing_trades |-> 0, win_rate |-> Frac(0, 1), profit_factor |-> Frac(0, 1),
     sharpe_ratio |-> "zero"]

\* line 159: (equity.iloc[-1] / initial_capital - 1) * 100, the equity in
\* units of 1/CommDen
TotalReturn(eq, ic) ==
    Frac((eq[Len(eq)].equity - ic * CommDen) * 100, ic * CommDen)

AbsInt(x) == IF x < 0 THEN -x ELSE x

\* lines 205-212
ProfitFactor(sell_trades) ==
    LET Win(t)  == t.pnl > 0
        Loss(t) == t.pnl < 0
        total_profit == SumSeq([k \in DOMAIN SelectSeq(sell_trades, Win) |->
                                   SelectSeq(sell_trades, Win)[k].pnl])
        total_loss   == SumSeq([k \in DOMAIN SelectSeq(sell_trades, Loss) |->
                                   AbsInt(SelectSeq(sell_trades, Loss)[k].pnl)])
    IN  IF total_loss > 0 THEN Frac(total_profit, total_loss)
        ELSE IF total_profit = 0 THEN Frac(0, 1) ELSE Frac(1, 0)

\* lines 105 and 176-184.  The ratio is held by its kind: "zero" for the
\* value 0, "nan" for a ratio that is not a number, "ratio" for
\* mean / std * sqrt(252) of a non-zero std.  The return of a bar is NaN
\* (and dropped) after an equity of 0 that stays 0; the std of one return
\* is NaN, which differs from 0.
SharpeRatio(eq) ==
    LET Returns == {k \in 2..Len(eq) :
                       ~(eq[k - 1].equity = 0 /\ eq[k].equity = 0)}
        SameReturn(j, k) ==
            eq[j].equity * eq[k - 1].equity = eq[k].equity * eq[j - 1].equity
    IN  IF Returns = {} THEN "zero"
        ELSE IF \E k \in Returns : eq[k - 1].equity = 0 THEN "nan"
        ELSE IF Cardinality(Returns) = 1 THEN "nan"
        ELSE IF \A j, k \in Returns : SameReturn(j, k) THEN "zero"
        ELSE "ratio"

\* lines 155-212.  annual_return and max_drawdown (lines 161-174 and
\* 186-193) read the same arguments and write no other entry of the dict;
\* they are not held here.
FullMetrics(eq, trds, ic) ==
    LET IsSell(t) == t.type = "sell"
        sell_trades == SelectSeq(trds, IsSell)
        Win(t)  == t.pnl > 0
        Lose(t) == t.pnl <= 0
        total   == Len(sell_trades)
        winning == Len(SelectSeq(sell_trades, Win))
    IN  [total_return   |-> TotalReturn(eq, ic),
         total_trades   |-> total,
         winning_trades |-> winning,
         losing_trades  |-> Len(SelectSeq(sell_trades, Lose)),
         win_rate       |-> IF total > 0 THEN Frac(winning * 100, total)
                            ELSE Frac(0, 1),
         profit_factor  |-> ProfitFactor(sell_trades),
         sharpe_ratio   |-> SharpeRatio(eq)]

\* The metrics computed in full for an empty trade list too
MetricsOfEmptyTradeList(eq, trds, ic) ==
    IF Len(eq) = 0 THEN ZeroMetrics ELSE FullMetrics(eq, trds, ic)

\* lines 141-153, then the metrics in full
calculate_performance_metrics(eq, trds, ic) ==
    IF Len(trds) = 0 \/ Len(eq) = 0 THEN ZeroMetrics
    ELSE FullMetrics(eq, trds, ic)

\* lines 98-100
FinalEquity(pos, cap, sh, table) ==
    IF pos = 1 THEN cap + sh * table["Close"][NumBars(table)] * CommDen
    ELSE cap

----------------------------------------------------------------------------
(* utils/performance.py: analyze_trades *)

\* lines 136-148 and 153-165
ZeroTradeStats ==
    [total_trades |-> 0, winning_trades |-> 0, losing_trades |-> 0,
     win_rate |-> Frac(0, 1), avg_win |-> Frac(0, 1), avg_loss |-> Frac(0, 1),
     largest_win |-> 0, largest_loss |-> 0, profit_factor |-> Frac(0, 1),
     avg_trade |-> Frac(0, 1)]

MaxOf(S) == CHOOSE x \in S : \A y \in S : y <= x

MinOf(S) == CHOOSE x \in S : \A y \in S : x <= y

\* lines 136-206, the pnl in units of 1/CommDen
analyze_trades(trds) ==
    LET Sell(t) == t.type = "sell"
        sell_trades == SelectSeq(trds, Sell)
        Win(t)  == t.pnl > 0
        Lose(t) == t.pnl <= 0
        Pnls(s) == [k \in DOMAIN s |-> s[k].pnl]
        total_trades == Len(sell_trades)
        winning_pnls == Pnls(SelectSeq(sell_trades, Win))
        losing_pnls  == Pnls(SelectSeq(sell_trades, Lose))
        total_profit == IF winning_pnls # <<>> THEN SumSeq(winning_pnls)
                        ELSE 0
        total_loss   == IF losing_pnls # <<>> THEN AbsInt(SumSeq(losing_pnls))
                        ELSE 0
    IN  IF trds = <<>> \/ sell_trades = <<>> THEN ZeroTradeStats
        ELSE [total_trades   |-> total_trades,
              winning_trades |-> Len(winning_pnls),
              losing_trades  |-> Len(losing_pnls),
              win_rate       |-> IF total_trades > 0
                                 THEN Frac(Len(winning_pnls) * 100, total_trades)
                                 ELSE Frac(0, 1),
              avg_win        |-> IF winning_pnls # <<>>
                                 THEN Frac(SumSeq(winning_pnls), Len(winning_pnls))
                                 ELSE Frac(0, 1),
              avg_loss       |-> IF losing_pnls # <<>>
                                 THEN Frac(SumSeq(losing_pnls), Len(losing_pnls))
                                 ELSE Frac(0, 1),
              largest_win    |-> IF winning_pnls # <<>>
                                 THEN MaxOf(Range(winning_pnls)) ELSE 0,
              largest_loss   |-> IF losing_pnls # <<>>
                                 THEN MinOf(Range(losing_pnls)) ELSE 0,
              profit_factor  |-> IF total_loss # 0
                                 THEN Frac(total_profit, total_loss)
                                 ELSE Frac(0, 1),
              avg_trade      |-> Frac(SumSeq(Pnls(sell_trades)), total_trades)]

----------------------------------------------------------------------------
(* utils/blocks.py: the block registry, create_block, validate_connection *)

\* A dict without keys
EmptyDict == [p \in {} |-> 0]

\* get_blocks_by_category, lines 37-325: five of the templates, keyed by
\* their id.  The text of a condition is held as its lexemes; price_data
\* has no 'params' entry.
BlockTemplates ==
    [price_data |->
        [name |-> "Price Data", inputs |-> <<>>,
         outputs |-> <<"Open", "High", "Low", "Close", "Volume">>,
         params |-> EmptyDict],
     rsi |->
        [name |-> "RSI", inputs |-> <<"price">>, outputs |-> <<"rsi_value">>,
         params |-> [period |-> [type |-> "number", min |-> 1, max |-> 100,
                                 default |-> 14]]],
     entry_condition |->
        [name |-> "Entry Condition", inputs |-> <<"indicators">>,
         outputs |-> <<"signal">>,
         params |-> [condition |-> [type |-> "text",
                                    default |-> <<"SMA_20", ">", "SMA_50">>],
                     direction |-> [type |-> "select",
                                    options |-> <<"long", "short">>,
                                    default |-> "long"]]],
     exit_condition |->
        [name |-> "Exit Condition", inputs |-> <<"indicators">>,
         outputs |-> <<"signal">>,
         params |-> [condition |-> [type |-> "text",
                                    default |-> <<"RSI_14", ">", "70">>]]],
     market_order |->
        [name |-> "Market Order", inputs |-> <<"signal", "position_size">>,
         outputs |-> <<"order">>,
         params |-> [direction |-> [type |-> "select",
                                    options |-> <<"buy", "sell">>,
                                    default |-> "buy"]]]]

\* lines 344-379.  params is NoneValue or a dict; id is the block_id given
\* or the uuid drawn at line 359.  An unknown type returns None.
create_block(block_type, id, params) ==
    IF block_type \notin DOMAIN BlockTemplates THEN NoneValue
    ELSE LET block_template == BlockTemplates[block_type]
             given == IF params = NoneValue THEN EmptyDict ELSE params
         IN  [id |-> id,
              type |-> block_type,
              name |-> block_template.name,
              inputs |-> block_template.inputs,
              outputs |-> block_template.outputs,
              params |->
                  [p \in DOMAIN given \cup DOMAIN block_template.params |->
                      IF p \in DOMAIN given THEN given[p]
                      ELSE block_template.params[p].default]]

\* lines 381-411
validate_connection(source_block, target_block, output_name, input_name) ==
    /\ output_name \in Range(source_block.outputs)
    /\ input_name \in Range(target_block.inputs)

\* static/blocks_data.py lines 829-860: the table of the allowed pairs of
\* block types, source first
CONNECTION_RULES ==
    { <<"price_data", "moving_average">>, <<"price_data", "rsi">>,
      <<"price_data", "bollinger_bands">>, <<"price_data", "macd">>,
      <<"price_data", "stochastic">>,
      <<"moving_average", "entry_condition">>,
      <<"moving_average", "exit_condition">>,
      <<"rsi", "entry_condition">>, <<"rsi", "exit_condition">>,
      <<"bollinger_bands", "entry_condition">>,
      <<"bollinger_bands", "exit_condition">>,
      <<"macd", "entry_condition">>, <<"macd", "exit_condition">>,
      <<"entry_condition", "market_order">>,
      <<"entry_condition", "limit_order">>,
      <<"exit_condition", "market_order">>,
      <<"exit_condition", "limit_order">>,
      <<"entry_condition", "stop_loss">>,
      <<"entry_condition", "take_profit">>,
      <<"stop_loss", "market_order">>, <<"take_profit", "market_order">> }

\* static/blocks_data.py lines 914-929; no module calls it
is_valid_connection(source_type, target_type) ==
    <<source_type, target_type>> \in CONNECTION_RULES

\* lines 413-443, without the connection's own id
create_connection(source_id, target_id, output_name, input_name) ==
    [source_id |-> source_id, target_id |-> target_id,
     output_name |-> output_name, input_name |-> input_name]

----------------------------------------------------------------------------
(* The arguments of a call *)

\* The price table of a series of closes.  Open is the close of the bar
\* before (of the bar itself for the first bar), so that "Close > Open"
\* reads "the close is above the prior close".
DataOf(closes) ==
    [Close |-> closes,
     Open  |-> [k \in 1..Len(closes) |->
                   IF k = 1 THEN closes[1] ELSE closes[k - 1]]]

ScenarioCloses == <<10, 11, 12, 11, 10>>

CloseSeries == SeqsUpTo(Prices, MaxBars) \cup {ScenarioCloses}

EntryConditions ==
    { <<"Close", ">", "Open">>,            \* column vs column
      <<"Close", ">", "10">>,              \* column vs literal
      <<"11", "<", "Close">>,              \* literal vs column
      <<"Close", "=", "=", "Open">>,
      <<>>,                                \* no condition set
      <<"Close", ">", "=", "11">>,         \* unsupported operator
      <<"Close", ">", "10", ">", "9">>,    \* two operators
      <<"Close", "11">>,                   \* no operator
      <<"Close", ">", "Foo">>,             \* operand: no column, no number
      <<"Foo", ">", "Bar">>,               \* unknown columns on both sides
      <<"11", ">", "10">> }                \* literal vs literal

ExitConditions ==
    { <<"Close", "<", "Open">>,
      <<"signal", "=", "=", "1">>,         \* exit wherever entry is set
      <<"Close", "<", "=", "11">>,
      <<"12", "=", "=", "12">>,
      <<>> }

EntryBlock(cond) ==
    [id |-> "entry_condition_1", type |-> "entry_condition",
     params |-> [condition |-> cond]]

ExitBlock(cond) ==
    [id |-> "exit_condition_1", type |-> "exit_condition",
     params |-> [condition |-> cond]]

OrderBlock ==
    [id |-> "market_order_1", type |-> "market_order",
     params |-> [direction |-> "buy"]]

Wire(src, tgt) ==
    [source_id |-> src, target_id |-> tgt,
     output_name |-> "signal", input_name |-> "signal"]

Wirings ==
    { <<>>,
      <<Wire("entry_condition_1", "market_order_1"),
        Wire("exit_condition_1", "market_order_1")>> }

EmptyStrategy == [blocks |-> <<>>, connections |-> <<>>]

\* Two entry blocks, the second one wired only
TwoEntryStrategy ==
    [blocks |-> << [id |-> "entry_condition_0", type |-> "entry_condition",
                    params |-> [condition |-> <<"Close", ">", "11">>]],
                   EntryBlock(<<"Close", "<", "11">>),
                   ExitBlock(<<"Close", "=", "=", "11">>),
                   OrderBlock >>,
     connections |-> <<Wire("entry_condition_1", "market_order_1"),
                       Wire("exit_condition_1", "market_order_1")>>]

\* Condition blocks only: no order block, no connection
NoOrderStrategy ==
    [blocks |-> <<EntryBlock(<<"Close", ">", "10">>),
                  ExitBlock(<<"Close", "<", "Open">>)>>,
     connections |-> <<>>]

StrategyCatalogue ==
    {EmptyStrategy, TwoEntryStrategy, NoOrderStrategy}
    \cup {[blocks |-> <<EntryBlock(e), ExitBlock(x), OrderBlock>>,
           connections |-> w] :
              e \in EntryConditions, x \in ExitConditions, w \in Wirings}

----------------------------------------------------------------------------
(* The state machine of a call of run_backtest *)

NoCall == [called |-> FALSE]

\* The dashboard has not been displayed
NotShown == [shown |-> FALSE]

\* strategy_builder.py line 18: the text field's initial value
DefaultName == "My Trading Strategy"

\* No strategy has been saved: 'strategy' is not in the session state
NoStrategy == [saved |-> FALSE]

NoFile == [exported |-> FALSE]

NoMessages == <<>>

\* block_canvas.py lines 13-16 and strategy_builder.py line 18: the builder
\* before its first use
BuilderStart ==
    /\ canvas_blocks = <<>>
    /\ canvas_connections = <<>>
    /\ session_strategy = NoStrategy
    /\ blocks_aliased = FALSE
    /\ connections_aliased = FALSE
    /\ uuid = 0
    /\ validation = NoMessages
    /\ strategy_name = DefaultName
    /\ exported_file = NoFile

\* create_block has not been called
NotCalled == [called |-> FALSE]

CreateCallStart ==
    /\ create_args = NotCalled
    /\ created = NotCalled

\* The session before any page other than the backtester is used
SessionStart ==
    /\ trade_stats = NotShown
    /\ BuilderStart
    /\ CreateCallStart

Init ==
    /\ data \in {DataOf(c) : c \in CloseSeries}
    /\ strategy \in StrategyCatalogue
    /\ initial_capital \in InitialCapitals
    /\ commission \in Commissions
    /\ risk_per_trade = DefaultRisk
    /\ pc = "start"
    /\ df = data
    /\ i = 1
    /\ position = 0
    /\ capital = 0
    /\ shares = 0
    /\ entry_price = 0
    /\ trades = <<>>
    /\ equity = <<>>
    /\ final_equity = 0
    /\ metrics = ZeroMetrics
    /\ prev = NoCall
    /\ SessionStart

Arguments == <<data, strategy, initial_capital, commission, risk_per_trade>>

\* lines 33-38
InitialPosition == 0

InitialShares == 0

\* A trade list that outlives the call
StaleTrades == trades

InitialTrades == <<>>

InitialEquity == <<>>

\* lines 27-38: the call of execute_strategy and the locals of the loop
ExecuteStrategy ==
    /\ pc = "start"
    /\ IF ExecuteRaises(strategy)
       THEN /\ pc' = "raised"
            /\ UNCHANGED <<df, i, position, capital, shares, entry_price,
                           trades, equity>>
       ELSE /\ df' = execute_strategy(data, strategy)
            /\ position' = InitialPosition
            /\ capital' = initial_capital * CommDen
            /\ shares' = InitialShares
            /\ entry_price' = 0
            /\ trades' = InitialTrades
            /\ equity' = InitialEquity
            /\ i' = 1
            /\ pc' = "loop"
    /\ UNCHANGED <<Session, Arguments, final_equity, metrics, prev>>

\* The locals of the loop, as one record
Locals ==
    [position |-> position, capital |-> capital, shares |-> shares,
     entry_price |-> entry_price, trades |-> trades, equity |-> equity]

\* lines 33-38: the locals before the first bar
LocalsAtStart(ic) ==
    [position |-> InitialPosition, capital |-> ic * CommDen,
     shares |-> InitialShares, entry_price |-> 0,
     trades |-> InitialTrades, equity |-> InitialEquity]

\* lines 41-95: the locals after the body of the loop has run on bar k
SimulateBar(table, k, st, comm) ==
    LET close  == table["Close"][k]
        curve  == RecordEquity(st.equity, k,
                      EquityValue(st.position, st.capital, st.shares, close))
        bought == SharesToBuy(st.capital, comm, close)
    IN  IF BuySignal(table, k, st.position)
        THEN [position    |-> 1,
              capital     |-> st.capital - BuyCost(bought, close, comm),
              shares      |-> bought,
              entry_price |-> close,
              trades      |-> Append(st.trades, BuyTrade(k, close, bought, comm)),
              equity      |-> curve]
        ELSE IF SellSignal(table, k, st.position)
        THEN [position    |-> 0,
              capital     |-> st.capital + SellProceeds(st.shares, close, comm),
              shares      |-> 0,
              entry_price |-> 0,
              trades      |-> Append(st.trades,
                                  SellTrade(k, close, st.shares,
                                            st.entry_price, comm)),
              equity      |-> curve]
        ELSE [st EXCEPT !.equity = curve]

\* lines 41-95: one iteration of the loop, on bar i
LoopBody ==
    /\ pc = "loop"
    /\ i <= NumBars(df)
    /\ LET after == SimulateBar(df, i, Locals, commission) IN
       /\ position' = after.position
       /\ capital' = after.capital
       /\ shares' = after.shares
       /\ entry_price' = after.entry_price
       /\ trades' = after.trades
       /\ equity' = after.equity
    /\ i' = i + 1
    /\ UNCHANGED <<Session, Arguments, pc, df, final_equity, metrics, prev>>

\* lines 97-119: the final equity, the metrics and the return
Finish ==
    /\ pc = "loop"
    /\ i > NumBars(df)
    /\ final_equity' = FinalEquity(position, capital, shares, df)
    /\ metrics' = calculate_performance_metrics(equity, trades, initial_capital)
    /\ pc' = "done"
    /\ UNCHANGED <<Session, Arguments, df, i, position, capital, shares, entry_price,
                   trades, equity, prev>>

Next == ExecuteStrategy \/ LoopBody \/ Finish

Spec == Init /\ [][Next]_vars

\* A second call with the same arguments, after the first has returned:
\* the caller keeps what the first call returned.
CallAgain ==
    /\ pc = "done"
    /\ ~prev.called
    /\ prev' = [called |-> TRUE, trades |-> trades, equity |-> equity,
                final_equity |-> final_equity]
    /\ pc' = "start"
    /\ UNCHANGED <<Session, Arguments, df, i, position, capital, shares, entry_price,
                   trades, equity, final_equity, metrics>>

NextTwice == Next \/ CallAgain

SpecTwice == Init /\ [][NextTwice]_vars

\* Calls over every commission rate from 0 to 100 % and capitals down to 0,
\* on strategies that trade on most bars
CashCapitals == {0, 5, 25, 1000}

CashStrategies ==
    {TwoEntryStrategy,
     [blocks |-> <<EntryBlock(<<"Close", ">", "10">>),
                   ExitBlock(<<"Close", "<", "Open">>), OrderBlock>>,
      connections |-> <<>>],
     [blocks |-> <<EntryBlock(<<"Close", "=", "=", "Open">>),
                   ExitBlock(<<"12", "=", "=", "12">>), OrderBlock>>,
      connections |-> <<>>]}

InitCash ==
    /\ data \in {DataOf(c) : c \in CloseSeries}
    /\ strategy \in CashStrategies
    /\ initial_capital \in CashCapitals
    /\ commission \in 0..CommDen
    /\ risk_per_trade = DefaultRisk
    /\ pc = "start"
    /\ df = data
    /\ i = 1
    /\ position = 0
    /\ capital = 0
    /\ shares = 0
    /\ entry_price = 0
    /\ trades = <<>>
    /\ equity = <<>>
    /\ final_equity = 0
    /\ metrics = ZeroMetrics
    /\ prev = NoCall
    /\ SessionStart

SpecCash == InitCash /\ [][Next]_vars

\* Calls on closes that rise by 10 % and by 21 %, at every commission rate
\* below 100 %
PctPrices == {100, 110, 121}

PctStrategies ==
    {[blocks |-> <<EntryBlock(e), ExitBlock(x), OrderBlock>>,
      connections |-> <<>>] :
         e \in {<<"Close", "=", "=", "Open">>, <<"Close", "<", "Open">>},
         x \in {<<"Close", ">", "Open">>, <<"Close", "<", "Open">>}}

InitPct ==
    /\ data \in {DataOf(c) : c \in SeqsUpTo(PctPrices, MaxBars)}
    /\ strategy \in PctStrategies
    /\ initial_capital = 1000
    /\ commission \in 0..(CommDen - 1)
    /\ risk_per_trade = DefaultRisk
    /\ pc = "start"
    /\ df = data
    /\ i = 1
    /\ position = 0
    /\ capital = 0
    /\ shares = 0
    /\ entry_price = 0
    /\ trades = <<>>
    /\ equity = <<>>
    /\ final_equity = 0
    /\ metrics = ZeroMetrics
    /\ prev = NoCall
    /\ SessionStart

SpecPct == InitPct /\ [][Next]_vars

\* Calls with a strategy that holds an RSI block, over every close series
RsiPeriods == {1, 2, 3}

RsiStrategies ==
    {[blocks |-> <<create_block("rsi", "rsi_1", [period |-> p])>>,
      connections |-> <<>>] : p \in RsiPeriods}

InitRsi ==
    /\ data \in {DataOf(c) : c \in SeqsUpTo(Prices, MaxBars)}
    /\ strategy \in RsiStrategies
    /\ initial_capital = 1000
    /\ commission = 0
    /\ risk_per_trade = DefaultRisk
    /\ pc = "start"
    /\ df = data
    /\ i = 1
    /\ position = 0
    /\ capital = 0
    /\ shares = 0
    /\ entry_price = 0
    /\ trades = <<>>
    /\ equity = <<>>
    /\ final_equity = 0
    /\ metrics = ZeroMetrics
    /\ prev = NoCall
    /\ SessionStart

SpecRsi == InitRsi /\ [][Next]_vars

\* components/performance_dashboard.py, lines 20-36: the dashboard page
\* after a backtest.  It returns early without an equity curve or without
\* trades; the other statistics of lines 35-38 are drawn and not kept.
DisplayDashboard ==
    /\ pc = "done"
    /\ equity # <<>>
    /\ trades # <<>>
    /\ trade_stats' = [shown |-> TRUE, stats |-> analyze_trades(trades)]
    /\ UNCHANGED <<Arguments, pc, df, i, position, capital, shares,
                   entry_price, trades, equity, final_equity, metrics, prev,
                   Builder, CreateCall>>

NextDashboard == Next \/ DisplayDashboard

SpecDashboard == Init /\ [][NextDashboard]_vars

----------------------------------------------------------------------------
(* components/block_canvas.py, strategy_builder.py, backtester.py: a session
   with the strategy builder, up to its first backtest *)

\* No backtest is running or has run
NoBacktest ==
    /\ data = DataOf(<<>>)
    /\ strategy = EmptyStrategy
    /\ initial_capital = 1000
    /\ commission = 0
    /\ risk_per_trade = DefaultRisk
    /\ pc = "idle"
    /\ df = data
    /\ i = 1
    /\ position = 0
    /\ capital = 0
    /\ shares = 0
    /\ entry_price = 0
    /\ trades = <<>>
    /\ equity = <<>>
    /\ final_equity = 0
    /\ metrics = ZeroMetrics
    /\ prev = NoCall

MaxBlocks == 2

MaxConnections == 1

\* The block types of the library that the session adds
CanvasLibrary == {"rsi", "entry_condition", "market_order"}

\* What the user types into the number and text fields of a block
PeriodInputs == {14, -5}

ConditionInputs ==
    { <<"SMA_20", ">", "SMA_50">>, <<"Close", ">", "10">>, <<"Close", "10">> }

\* block_canvas.py lines 51-90: the values the widgets of a block return.
\* A number field has no bounds and the condition is a free text; a select
\* returns one of the template's options, which the user of the model
\* leaves as it is.
ParamInputs(block) ==
    CASE block.type = "rsi" ->
            {[block.params EXCEPT !["period"] = v] : v \in PeriodInputs}
      [] block.type = "entry_condition" ->
            {[block.params EXCEPT !["condition"] = c] : c \in ConditionInputs}
      [] OTHER -> {block.params}

\* The price table loaded in the Data Viewer
TickerData == DataOf(<<10, 11>>)

RemoveAt(s, k) == [j \in 1..(Len(s) - 1) |-> IF j < k THEN s[j] ELSE s[j + 1]]

\* The saved strategy after the canvas lists were changed in place to the
\* given values: a list that the saved strategy shares changes with them.
AfterInPlace(new_blocks, new_connections) ==
    IF ~session_strategy.saved THEN session_strategy
    ELSE [saved |-> TRUE,
          blocks |-> IF blocks_aliased THEN new_blocks
                     ELSE session_strategy.blocks,
          connections |-> IF connections_aliased THEN new_connections
                          ELSE session_strategy.connections]

Backtest == <<Arguments, pc, df, i, position, capital, shares, entry_price,
              trades, equity, final_equity, metrics, prev>>

\* block_canvas.py lines 29-36: a button of the block library
AddBlock(block_type) ==
    /\ pc = "idle"
    /\ uuid < MaxBlocks
    /\ LET new_block ==
               create_block(block_type, uuid + 1, NoneValue)
               @@ ("position" :>
                      [x |-> 100, y |-> 100 * (Len(canvas_blocks) + 1)])
           blocks == Append(canvas_blocks, new_block)
       IN  /\ canvas_blocks' = blocks
           /\ session_strategy' = AfterInPlace(blocks, canvas_connections)
    /\ uuid' = uuid + 1
    /\ validation' = NoMessages
    /\ UNCHANGED <<Backtest, trade_stats, CreateCall, canvas_connections,
                   blocks_aliased, connections_aliased, strategy_name,
                   exported_file>>

\* lines 51-93: the parameters of block k are set from its widgets
EditParams(k, params) ==
    /\ pc = "idle"
    /\ k \in DOMAIN canvas_blocks
    /\ params \in ParamInputs(canvas_blocks[k])
    /\ LET blocks == [canvas_blocks EXCEPT ![k].params = params]
       IN  /\ canvas_blocks' = blocks
           /\ session_strategy' = AfterInPlace(blocks, canvas_connections)
    /\ validation' = NoMessages
    /\ UNCHANGED <<Backtest, trade_stats, CreateCall, canvas_connections,
                   blocks_aliased, connections_aliased, uuid, strategy_name,
                   exported_file>>

\* lines 111-118: canvas_connections is bound to a new, filtered list;
\* the block is removed from the list canvas_blocks itself
DeleteBlock(k) ==
    /\ pc = "idle"
    /\ k \in DOMAIN canvas_blocks
    /\ LET block == canvas_blocks[k]
           Kept(conn) == /\ conn.source_id # block.id
                         /\ conn.target_id # block.id
           blocks == RemoveAt(canvas_blocks, k)
       IN  /\ canvas_connections' = SelectSeq(canvas_connections, Kept)
           /\ connections_aliased' = FALSE
           /\ canvas_blocks' = blocks
           /\ session_strategy' =
                  IF session_strategy.saved /\ blocks_aliased
                  THEN [session_strategy EXCEPT !.blocks = blocks]
                  ELSE session_strategy
    /\ validation' = NoMessages
    /\ UNCHANGED <<Backtest, trade_stats, CreateCall, blocks_aliased, uuid,
                   strategy_name, exported_file>>

\* lines 122-174: the 'Create Connection' form, submitted with a source
\* and a target block and one of the outputs and inputs the form offers
CreateConnection(s, t, output_name, input_name) ==
    /\ pc = "idle"
    /\ Len(canvas_blocks) > 1
    /\ Len(canvas_connections) < MaxConnections
    /\ s \in DOMAIN canvas_blocks
    /\ t \in DOMAIN canvas_blocks
    /\ output_name \in Range(canvas_blocks[s].outputs)
    /\ input_name \in Range(canvas_blocks[t].inputs)
    /\ LET source_block == canvas_blocks[s]
           target_block == canvas_blocks[t]
           can_connect == validate_connection(source_block, target_block,
                                              output_name, input_name)
           connections ==
               Append(canvas_connections,
                      create_connection(source_block.id, target_block.id,
                                        output_name, input_name))
       IN  IF source_block.id # target_block.id /\ can_connect
           THEN /\ canvas_connections' = connections
                /\ session_strategy' = AfterInPlace(canvas_blocks, connections)
           ELSE UNCHANGED <<canvas_connections, session_strategy>>
    /\ validation' = NoMessages
    /\ UNCHANGED <<Backtest, trade_stats, CreateCall, canvas_blocks,
                   blocks_aliased, connections_aliased, uuid, strategy_name,
                   exported_file>>

\* lines 190-192: the connection is removed from the list itself
DeleteConnection(k) ==
    /\ pc = "idle"
    /\ k \in DOMAIN canvas_connections
    /\ LET connections == RemoveAt(canvas_connections, k)
       IN  /\ canvas_connections' = connections
           /\ session_strategy' = AfterInPlace(canvas_blocks, connections)
    /\ validation' = NoMessages
    /\ UNCHANGED <<Backtest, trade_stats, CreateCall, canvas_blocks,
                   blocks_aliased, connections_aliased, uuid, strategy_name,
                   exported_file>>

\* lines 196-205: the saved strategy holds the two canvas lists themselves
SaveStrategy ==
    /\ pc = "idle"
    /\ IF canvas_blocks = <<>>
       THEN UNCHANGED <<session_strategy, blocks_aliased, connections_aliased>>
       ELSE /\ session_strategy' = [saved |-> TRUE,
                                    blocks |-> canvas_blocks,
                                    connections |-> canvas_connections]
            /\ blocks_aliased' = TRUE
            /\ connections_aliased' = TRUE
    /\ validation' = NoMessages
    /\ UNCHANGED <<Backtest, trade_stats, CreateCall, canvas_blocks,
                   canvas_connections, uuid, strategy_name, exported_file>>

\* strategy_builder.py lines 105-142: the messages of 'Validate Strategy'
ValidationMessages(strat) ==
    LET IsEntry(b) == b.type = "entry_condition"
        validation_errors ==
            (IF strat.connections = <<>>
             THEN <<"Strategy has no connections between blocks">>
             ELSE <<>>)
            \o (IF SelectSeq(strat.blocks, IsEntry) = <<>>
                THEN <<"Strategy has no entry conditions">>
                ELSE <<>>)
        result == execute_strategy(TickerData, strat)
        signal_count ==
            Cardinality({k \in DOMAIN result["signal"] :
                            result["signal"][k] # 0})
    IN  IF validation_errors # <<>> THEN validation_errors
        ELSE IF ExecuteRaises(strat)
        THEN <<"Error during strategy execution">>
        ELSE IF signal_count > 0
        THEN <<"Strategy validated successfully!">>
        ELSE <<"Strategy validated but did not generate any signals">>

\* lines 29 and 99-142: the button shows its messages and changes nothing
ValidateStrategy ==
    /\ pc = "idle"
    /\ session_strategy.saved
    /\ session_strategy.blocks # <<>>
    /\ validation' = ValidationMessages(session_strategy)
    /\ UNCHANGED <<Backtest, trade_stats, CreateCall, canvas_blocks,
                   canvas_connections, session_strategy, blocks_aliased,
                   connections_aliased, uuid, strategy_name, exported_file>>

\* backtester.py lines 16-24 and 57-71: 'Run Backtest' over the full range
\* of the loaded data, with the capital and commission of the number fields
RunBacktest ==
    /\ pc = "idle"
    /\ session_strategy.saved
    /\ session_strategy.blocks # <<>>
    /\ NumBars(TickerData) > 0
    /\ data' = TickerData
    /\ strategy' = [blocks |-> session_strategy.blocks,
                    connections |-> session_strategy.connections]
    /\ pc' = "start"
    /\ validation' = NoMessages
    /\ UNCHANGED <<initial_capital, commission, risk_per_trade, df, i,
                   position, capital, shares, entry_price, trades, equity,
                   final_equity, metrics,
                   prev, trade_stats, CreateCall, canvas_blocks,
                   canvas_connections, session_strategy, blocks_aliased,
                   connections_aliased, uuid, strategy_name, exported_file>>

\* strategy_builder.py line 18: the user types a name into the text field
Names == {DefaultName, "Momentum"}

EditName(name) ==
    /\ pc = "idle"
    /\ strategy_name' = name
    /\ validation' = NoMessages
    /\ UNCHANGED <<Backtest, trade_stats, CreateCall, canvas_blocks,
                   canvas_connections, session_strategy, blocks_aliased,
                   connections_aliased, uuid, exported_file>>

\* line 20: the description field, which the user of the model leaves as
\* it is
DefaultDescription == "A simple algorithmic trading strategy"

\* json.dumps, lines 53-58: the document is the members of the dict in
\* the order of its keys.  The values are strings, integers, lists and
\* dicts with string keys, which JSON writes and reads back as they are.
dumps(name, description, blocks, connections) ==
    << <<"name", name>>, <<"description", description>>,
       <<"blocks", blocks>>, <<"connections", connections>> >>

\* json.load, line 72: the dict of the members of the document
load(text) ==
    [key \in {text[j][1] : j \in DOMAIN text} |->
        text[CHOOSE j \in DOMAIN text : text[j][1] = key][2]]

\* lines 29 and 52-65: 'Export Strategy' writes the saved strategy under
\* the name in the text field
ExportStrategy ==
    /\ pc = "idle"
    /\ session_strategy.saved
    /\ session_strategy.blocks # <<>>
    /\ exported_file' =
           [exported |-> TRUE,
            text |-> dumps(strategy_name, DefaultDescription,
                           session_strategy.blocks,
                           session_strategy.connections)]
    /\ validation' = NoMessages
    /\ UNCHANGED <<Backtest, trade_stats, CreateCall, canvas_blocks,
                   canvas_connections, session_strategy, blocks_aliased,
                   connections_aliased, uuid, strategy_name>>

\* lines 29 and 69-93: the exported file is uploaded.  The saved strategy
\* and the canvas take the lists of the document; the name of the document
\* is assigned to a local of the page function (line 84) and the page is
\* run again (line 89), so the text field keeps its value.
ImportStrategy ==
    /\ pc = "idle"
    /\ session_strategy.saved
    /\ session_strategy.blocks # <<>>
    /\ exported_file.exported
    /\ LET import_data == load(exported_file.text) IN
       IF "blocks" \in DOMAIN import_data /\ "connections" \in DOMAIN import_data
       THEN /\ session_strategy' = [saved |-> TRUE,
                                    blocks |-> import_data["blocks"],
                                    connections |-> import_data["connections"]]
            /\ canvas_blocks' = import_data["blocks"]
            /\ canvas_connections' = import_data["connections"]
            /\ blocks_aliased' = TRUE
            /\ connections_aliased' = TRUE
       ELSE UNCHANGED <<session_strategy, canvas_blocks, canvas_connections,
                        blocks_aliased, connections_aliased>>
    /\ validation' = NoMessages
    /\ UNCHANGED <<Backtest, trade_stats, CreateCall, uuid, strategy_name,
                   exported_file>>

InitBuilder ==
    /\ NoBacktest
    /\ SessionStart

\* The operations of the block canvas
NextBuilder ==
    \/ \E block_type \in CanvasLibrary : AddBlock(block_type)
    \/ \E k \in DOMAIN canvas_blocks :
          \E params \in ParamInputs(canvas_blocks[k]) : EditParams(k, params)
    \/ \E k \in DOMAIN canvas_blocks : DeleteBlock(k)
    \/ \E s, t \in DOMAIN canvas_blocks :
          \E output_name \in Range(canvas_blocks[s].outputs),
             input_name \in Range(canvas_blocks[t].inputs) :
             CreateConnection(s, t, output_name, input_name)
    \/ \E k \in DOMAIN canvas_connections : DeleteConnection(k)
    \/ SaveStrategy

SpecBuilder == InitBuilder /\ [][NextBuilder]_vars

\* A session that builds a strategy without deleting from it, saves it,
\* validates it or not, and runs a backtest on it
NextSession ==
    \/ \E block_type \in CanvasLibrary : AddBlock(block_type)
    \/ \E k \in DOMAIN canvas_blocks :
          \E params \in ParamInputs(canvas_blocks[k]) : EditParams(k, params)
    \/ \E s, t \in DOMAIN canvas_blocks :
          \E output_name \in Range(canvas_blocks[s].outputs),
             input_name \in Range(canvas_blocks[t].inputs) :
             CreateConnection(s, t, output_name, input_name)
    \/ SaveStrategy
    \/ ValidateStrategy
    \/ RunBacktest
    \/ ExecuteStrategy
    \/ LoopBody
    \/ Finish

SpecSession == InitBuilder /\ [][NextSession]_vars

\* A block as the canvas adds it as its k-th block
AddedBlock(block_type, id, k) ==
    create_block(block_type, id, NoneValue)
    @@ ("position" :> [x |-> 100, y |-> 100 * k])

\* Three strategies built and saved on the canvas
SavedCanvases ==
    { [blocks |-> <<AddedBlock("entry_condition", 1, 1),
                    AddedBlock("market_order", 2, 2)>>,
       connections |-> <<create_connection(1, 2, "signal", "signal")>>],
      [blocks |-> <<AddedBlock("market_order", 1, 1),
                    AddedBlock("rsi", 2, 2)>>,
       connections |-> <<create_connection(1, 2, "order", "price")>>],
      [blocks |-> <<AddedBlock("rsi", 1, 1)>>, connections |-> <<>>] }

\* A session in which one of them has just been saved
InitExport ==
    /\ NoBacktest
    /\ trade_stats = NotShown
    /\ CreateCallStart
    /\ \E c \in SavedCanvases :
          /\ canvas_blocks = c.blocks
          /\ canvas_connections = c.connections
          /\ session_strategy = [saved |-> TRUE, blocks |-> c.blocks,
                                 connections |-> c.connections]
          /\ uuid = Len(c.blocks)
    /\ blocks_aliased = TRUE
    /\ connections_aliased = TRUE
    /\ validation = NoMessages
    /\ strategy_name = DefaultName
    /\ exported_file = NoFile

\* Export and import, between changes of the name field and of the canvas
NextExport ==
    \/ \E name \in Names : EditName(name)
    \/ ExportStrategy
    \/ ImportStrategy
    \/ \E k \in DOMAIN canvas_blocks :
          \E params \in ParamInputs(canvas_blocks[k]) : EditParams(k, params)
    \/ \E k \in DOMAIN canvas_blocks : DeleteBlock(k)
    \/ SaveStrategy

SpecExport == InitExport /\ [][NextExport]_vars

----------------------------------------------------------------------------
(* A direct call of create_block with parameters *)

BlockTypes == DOMAIN BlockTemplates \cup {"no_such_block"}

PeriodValues == {-5, 0, 1, 14, 100, 101}

DirectionValues == {"buy", "sell", "long", "sideways"}

SuppliedParams ==
    {NoneValue, EmptyDict}
    \cup {[period |-> v] : v \in PeriodValues}
    \cup {[direction |-> d] : d \in DirectionValues}
    \cup {[period |-> v, direction |-> d] :
              v \in PeriodValues, d \in DirectionValues}

InitCreateBlock ==
    /\ NoBacktest
    /\ trade_stats = NotShown
    /\ BuilderStart
    /\ create_args \in [called : {TRUE}, block_type : BlockTypes,
                         params : SuppliedParams]
    /\ created = NotCalled

\* create_block(block_type, params=params); the id is a fresh uuid
CreateBlockCall ==
    /\ create_args.called
    /\ ~created.called
    /\ created' = [called |-> TRUE,
                   block |-> create_block(create_args.block_type, 1,
                                          create_args.params)]
    /\ UNCHANGED <<Arguments, pc, df, i, position, capital, shares,
                   entry_price, trades, equity, final_equity, metrics, prev,
                   trade_stats, Builder, create_args>>

SpecCreateBlock == InitCreateBlock /\ [][CreateBlockCall]_vars

----------------------------------------------------------------------------
(* Properties *)

Signal(k) == RowGet(df, k, "signal", 0)

ExitSignal(k) == RowGet(df, k, "exit_signal", 0)

\* Two fractions are the same number
FracEq(p, q) == p.num * q.den = q.num * p.den

IsBuy(t) == t.type = "buy"

IsSell(t) == t.type = "sell"

\* The specification counts bars from 0; the model's dates count from 1.
BarIndex(date) == date - 1

\* C1: the simulator is never LONG with zero tracked shares, and a buy is
\* recorded only if its share count is greater than 0.
C1_NeverLongWithZeroShares ==
    /\ position = 1 => shares > 0
    /\ \A k \in DOMAIN trades : IsBuy(trades[k]) => trades[k].shares > 0

\* C2: the trade log alternates buy, sell, buy, ... from a buy on, so that
\* #sells <= #buys <= #sells + 1, and the simulator is LONG exactly when the
\* last trade is a buy.
C2_TradesAlternate ==
    /\ \A k \in DOMAIN trades :
          trades[k].type = IF k % 2 = 1 THEN "buy" ELSE "sell"
    /\ Len(SelectSeq(trades, IsSell)) <= Len(SelectSeq(trades, IsBuy))
    /\ Len(SelectSeq(trades, IsBuy)) <= Len(SelectSeq(trades, IsSell)) + 1
    /\ position = 1 <=> Len(trades) % 2 = 1

C2_Witness ==
    /\ Len(trades) >= 4
    /\ pc = "done"

\* C3: on a bar whose entry and exit signals are both set, one trade is
\* executed: a sell (and no buy) if the simulator is LONG at the start of
\* the bar, a buy (and no sell) if it is FLAT.
C3_OneTradeOnBothSignals ==
    [][ ( /\ pc = "loop"
          /\ i <= NumBars(df)
          /\ i' = i + 1
          /\ Signal(i) = 1
          /\ ExitSignal(i) = 1 )
        => /\ Len(trades') = Len(trades) + 1
           /\ SubSeq(trades', 1, Len(trades)) = trades
           /\ position = 1 => /\ IsSell(trades'[Len(trades')])
                               /\ position' = 0
           /\ position = 0 => /\ IsBuy(trades'[Len(trades')])
                               /\ position' = 1 ]_vars

\* Both cases have happened: a sell and a later buy on bars with both signals
C3_Witness ==
    \E a, b \in DOMAIN trades :
        /\ a < b
        /\ IsSell(trades[a]) /\ IsBuy(trades[b])
        /\ Signal(trades[a].date) = 1 /\ ExitSignal(trades[a].date) = 1
        /\ Signal(trades[b].date) = 1 /\ ExitSignal(trades[b].date) = 1

InScenario ==
    /\ pc # "start"
    /\ df["Close"] = ScenarioCloses
    /\ \A k \in 1..5 : Signal(k) = (IF BarIndex(k) \in {1, 2} THEN 1 ELSE 0)
    /\ \A k \in 1..5 : ExitSignal(k) = (IF BarIndex(k) \in {3, 4} THEN 1 ELSE 0)
    /\ initial_capital = 1000
    /\ commission = 0

\* C4: closes [10,11,12,11,10], entry at bars 1 and 2, exit at bars 3 and 4,
\* capital 1000, commission 0: one buy at bar 1 (price 11, shares 90), one
\* sell at bar 3 (price 11, pnl 0), equity 1000 at bar 3 and after.
C4_Scenario ==
    InScenario =>
        /\ \A k \in DOMAIN equity :
              BarIndex(equity[k].date) >= 3 => equity[k].equity = 1000 * CommDen
        /\ \A k \in DOMAIN trades :
              \/ /\ k = 1 /\ IsBuy(trades[k]) /\ BarIndex(trades[k].date) = 1
                 /\ trades[k].price = 11 /\ trades[k].shares = 90
              \/ /\ k = 2 /\ IsSell(trades[k]) /\ BarIndex(trades[k].date) = 3
                 /\ trades[k].price = 11 /\ trades[k].pnl = 0
        /\ pc = "done" => /\ Len(trades) = 2
                           /\ Len(equity) = 5
                           /\ final_equity = 1000 * CommDen

C4_Witness == InScenario /\ pc = "done"

NoEntrySignal == \A k \in 1..NumBars(df) : Signal(k) # 1

\* C5: if no bar carries an entry signal (in particular for the strategy
\* with no blocks), the call returns with zero trades and the equity point
\* of every bar equal to initial_capital.
C5_NoEntryNoTrades ==
    (pc # "start" /\ NoEntrySignal) =>
        /\ trades = <<>>
        /\ \A k \in DOMAIN equity : equity[k].equity = initial_capital * CommDen
        /\ pc = "loop" => Len(equity) = i - 1
        /\ pc = "done" => /\ Len(equity) = NumBars(df)
                           /\ final_equity = initial_capital * CommDen

\* The strategy with no blocks has run over a series of several bars
C5_Witness ==
    /\ pc = "done"
    /\ strategy = EmptyStrategy
    /\ NoEntrySignal
    /\ "exit_signal" \notin DOMAIN df
    /\ Len(equity) >= 3

\* C6: the total_return metric equals (final_equity / initial_capital - 1)
\* * 100 for the final_equity the same call returns.
C6_TotalReturnOfFinalEquity ==
    pc = "done" =>
        FracEq(metrics.total_return,
               Frac((final_equity - initial_capital * CommDen) * 100,
                    initial_capital * CommDen))

\* C7: a second call with the same arguments returns the trades and the
\* equity curve of the first.
C7_SameResultTwice ==
    (prev.called /\ pc = "done") =>
        /\ trades = prev.trades
        /\ equity = prev.equity
        /\ final_equity = prev.final_equity

C7_Witness ==
    /\ prev.called
    /\ pc = "done"
    /\ Len(trades) >= 2

\* The grammar of a condition: <operand> <op> <operand>, op one of > < ==,
\* an operand a column of the table or a number.
Operators == {<<">">>, <<"<">>, <<"=", "=">>}

IsOperandLexeme(x) ==
    x \in DOMAIN data \cup {"signal", "exit_signal"} \cup DOMAIN Numerals

WellFormed(cond) ==
    \E op \in Operators :
        /\ Len(cond) = Len(op) + 2
        /\ SubSeq(cond, 2, Len(cond) - 1) = op
        /\ IsOperandLexeme(cond[1])
        /\ IsOperandLexeme(cond[Len(cond)])

ConditionBlocks ==
    {b \in Range(strategy.blocks) :
        b.type \in {"entry_condition", "exit_condition"} /\ ConditionOf(b) # <<>>}

\* C8: when a condition block carries a malformed expression, signal
\* generation is aborted with an error: it does not return normally.
C8_MalformedConditionAborts ==
    pc # "start" => \A b \in ConditionBlocks : WellFormed(ConditionOf(b))

\* <operand> <op> <operand> in which neither operand is a column
NoColumnOperand(cond) ==
    \E op \in Operators :
        /\ Len(cond) = Len(op) + 2
        /\ SubSeq(cond, 2, Len(cond) - 1) = op
        /\ cond[1] \notin DOMAIN data \cup {"signal", "exit_signal"}
        /\ cond[Len(cond)] \notin DOMAIN data \cup {"signal", "exit_signal"}

\* C9: when neither operand of a condition resolves to a column (unknown
\* names on both sides, or literal against literal), an error is surfaced:
\* the run does not go on.
C9_NoColumnOperandAborts ==
    pc # "start" => \A b \in ConditionBlocks : ~NoColumnOperand(ConditionOf(b))

OrderTypes == {"market_order", "limit_order"}

\* The block is the source of a connection whose target is an order block
WiredToOrder(strat, b) ==
    \E c \in Range(strat.connections), o \in Range(strat.blocks) :
        /\ o.type \in OrderTypes
        /\ c.source_id = b.id
        /\ c.target_id = o.id

\* The strategy without the condition blocks that are not wired to an order
WiredPart(strat) ==
    LET Keep(b) == \/ b.type \notin {"entry_condition", "exit_condition"}
                   \/ WiredToOrder(strat, b)
    IN  [strat EXCEPT !.blocks = SelectSeq(strat.blocks, Keep)]

\* C10: the entry and exit signals are set only from condition blocks wired
\* by a connection to an order block: the signals are those of the strategy
\* without its unwired condition blocks.
C10_OnlyWiredConditionsSignal ==
    (pc # "start" /\ strategy.blocks # <<>>) =>
        LET wired == generate_signals(data, WiredPart(strategy))
        IN  /\ df["signal"] = wired["signal"]
            /\ df["exit_signal"] = wired["exit_signal"]


\* The block is an order block, under either naming of the block types
IsOrderBlock(b) == b.type \in OrderTypes \cup {"order"}

\* C11: a strategy that contains zero order blocks produces no trades,
\* whatever condition blocks it contains.
C11_NoOrderBlockNoTrades ==
    (\A b \in Range(strategy.blocks) : ~IsOrderBlock(b)) => trades = <<>>


\* The pnl of the sell records of a trade list
SellPnls(trds) ==
    LET sells == SelectSeq(trds, IsSell)
    IN  [k \in DOMAIN sells |-> sells[k].pnl]

\* C19: whenever the simulator is flat, the cash is the initial capital
\* plus the pnl of the sells recorded so far, and the pnl of each sell is
\* shares * (exit price - entry price) less the commission on the value of
\* its buy and on its own value.
C19_CashIsCapitalPlusPnl ==
    (pc \in {"loop", "done"} /\ position = 0) =>
        /\ capital = initial_capital * CommDen + SumSeq(SellPnls(trades))
        /\ \A k \in DOMAIN trades :
               IsSell(trades[k]) =>
                   /\ k > 1
                   /\ IsBuy(trades[k - 1])
                   /\ trades[k].pnl * CommDen =
                          trades[k].shares
                              * (trades[k].price - trades[k - 1].price)
                              * CommDen * CommDen
                          - commission
                              * (trades[k - 1].value + trades[k].value)

\* Two round trips under a commission, the first one at a loss
C19_Witness ==
    /\ pc = "done"
    /\ position = 0
    /\ commission > 0
    /\ Len(trades) = 4
    /\ trades[2].shares > 0
    /\ trades[2].pnl < 0
    /\ trades[4].shares > 0

\* C20: the cash is never negative, after every buy and every sell, for
\* every commission rate from 0 to 1 and every capital from 0.
C20_CashNeverNegative == capital >= 0

\* A buy under a commission that leaves less cash than one more share costs
C20_Witness ==
    /\ position = 1
    /\ shares > 0
    /\ commission > 0
    /\ capital < entry_price * CommDen


\* C13: with no trade at all the metrics give a win rate of 0 and a Sharpe
\* ratio of 0, whatever the equity curve, the empty one included; with
\* trades but no sell the win rate is 0.
C13_ZeroTradesZeroMetrics ==
    pc = "done" =>
        /\ trades = <<>> =>
               /\ FracEq(metrics.win_rate, Frac(0, 1))
               /\ metrics.sharpe_ratio = "zero"
        /\ SelectSeq(trades, IsSell) = <<>> =>
               FracEq(metrics.win_rate, Frac(0, 1))

\* No trade over two bars: one return only, of which the std is no number
C13_Witness ==
    /\ pc = "done"
    /\ trades = <<>>
    /\ Len(equity) = 2
    /\ equity[1].equity > 0


\* The profit factor of a trade log as stated: profit over loss when there
\* is a loss, else infinite for a positive profit and 0 without profit
StatedProfitFactor(trds) ==
    LET sells  == SelectSeq(trds, IsSell)
        Gain(t) == t.pnl > 0
        Loss(t) == t.pnl < 0
        profit == SumSeq(SellPnls(SelectSeq(sells, Gain)))
        loss   == AbsInt(SumSeq(SellPnls(SelectSeq(sells, Loss))))
    IN  IF loss > 0 THEN Frac(profit, loss)
        ELSE IF profit > 0 THEN Frac(1, 0) ELSE Frac(0, 1)

\* Equality of two profit factors, the infinite one included
SameFactor(p, q) ==
    IF p.den = 0 \/ q.den = 0 THEN p.den = q.den ELSE FracEq(p, q)

\* The profit factor of calculate_performance_metrics is the stated one
MetricsProfitFactorAsStated ==
    pc = "done" => SameFactor(metrics.profit_factor, StatedProfitFactor(trades))

\* C12: every profit factor computed over the trade log, by
\* calculate_performance_metrics and by analyze_trades, is profit over loss
\* when there is a loss, and without a losing trade is infinite for a
\* positive profit and 0 otherwise.
C12_ProfitFactorConvention ==
    /\ MetricsProfitFactorAsStated
    /\ trade_stats.shown =>
           SameFactor(trade_stats.stats.profit_factor,
                      StatedProfitFactor(trades))


\* The value satisfies the template's schema of the parameter
SchemaAllows(config, value) ==
    IF config.type = "number" THEN config.min <= value /\ value <= config.max
    ELSE IF config.type = "select" THEN value \in Range(config.options)
    ELSE TRUE

\* C18: create_block never returns a block with a parameter value outside
\* its template's schema: a number below min or above max, or a select
\* value outside the options, is not stored in the block.
C18_CreateBlockKeepsSchema ==
    (created.called /\ created.block # NoneValue) =>
        LET schema == BlockTemplates[created.block.type].params
        IN  \A p \in DOMAIN schema :
               SchemaAllows(schema[p], created.block.params[p])


\* Every connection of the list references blocks of the block list
ReferencesExist(blocks, connections) ==
    \A c \in Range(connections) :
        /\ \E b \in Range(blocks) : b.id = c.source_id
        /\ \E b \in Range(blocks) : b.id = c.target_id

\* The connections of the canvas reference blocks of the canvas
CanvasReferencesExist == ReferencesExist(canvas_blocks, canvas_connections)

\* C14: after any sequence of builder operations, every connection of the
\* canvas and every connection of the saved strategy references, by
\* source_id and target_id, a block of the block list of the same
\* structure; deleting a block after a save leaves no connection to it in
\* the saved strategy.
C14_ConnectionsReferenceBlocks ==
    /\ CanvasReferencesExist
    /\ session_strategy.saved =>
           ReferencesExist(session_strategy.blocks,
                           session_strategy.connections)

\* The type of the block of the list with the given id
TypeOfBlock(blocks, id) == (CHOOSE b \in Range(blocks) : b.id = id).type

\* Every connection joins a pair of block types of the allowed-pairs table
PairsAllowed(blocks, connections) ==
    \A c \in Range(connections) :
        is_valid_connection(TypeOfBlock(blocks, c.source_id),
                            TypeOfBlock(blocks, c.target_id))

\* C16: the builder accepts a connection only if its pair of block types
\* is in the allowed-pairs table; a connection from an order block to an
\* indicator block is never accepted.
C16_OnlyAllowedPairsConnect ==
    PairsAllowed(canvas_blocks, canvas_connections)

\* <operand> <operator> <operand>, whatever the operands are
HasConditionShape(cond) ==
    \E op \in Operators :
        /\ Len(cond) = Len(op) + 2
        /\ SubSeq(cond, 2, Len(cond) - 1) = op

\* No dangling connection, no disallowed pair, no self-connection, no
\* malformed condition, no parameter outside its schema
StructurallyValid(strat) ==
    /\ ReferencesExist(strat.blocks, strat.connections)
    /\ PairsAllowed(strat.blocks, strat.connections)
    /\ \A c \in Range(strat.connections) : c.source_id # c.target_id
    /\ \A b \in Range(strat.blocks) :
           /\ b.type \in {"entry_condition", "exit_condition"} =>
                  HasConditionShape(ConditionOf(b))
           /\ \A p \in DOMAIN BlockTemplates[b.type].params :
                  SchemaAllows(BlockTemplates[b.type].params[p], b.params[p])

\* C15: run_backtest is started only on a structurally valid strategy; on
\* an invalid one no step of the simulation is executed.
C15_BacktestOnlyOnValidStrategy ==
    pc \in {"start", "loop", "done", "raised"} => StructurallyValid(strategy)


\* C17: exporting a strategy, importing the exported file and exporting
\* again gives the same document: after the import the name, the blocks and
\* the connections are those of the file, whatever the name field and the
\* canvas held at the import.
C17_ExportImportExport ==
    [][ImportStrategy =>
          dumps(strategy_name', DefaultDescription, session_strategy'.blocks,
                session_strategy'.connections) = exported_file.text]_vars

\* What the import does restore: the blocks and the connections
ImportRestoresLists ==
    [][ImportStrategy =>
          /\ session_strategy'.blocks = load(exported_file.text)["blocks"]
          /\ session_strategy'.connections =
                 load(exported_file.text)["connections"]]_vars


\* ---------------------------------------------------------------------
\* C21: run_backtest records exactly one equity point per bar, in bar
\* order: while the loop is on bar i the curve holds the points of the
\* bars before i, at the end it is as long as the price series, and its
\* k-th date is the k-th bar, whatever trades occur.
C21_OneEquityPointPerBar ==
    /\ pc = "loop" => Len(equity) = i - 1
    /\ pc = "done" => Len(equity) = NumBars(data)
    /\ pc \in {"loop", "done"} =>
          \A k \in DOMAIN equity : BarIndex(equity[k].date) = k - 1

C21_Witness ==
    /\ pc = "done"
    /\ NumBars(data) = MaxBars
    /\ Len(equity) = MaxBars
    /\ \E k \in DOMAIN trades : IsSell(trades[k])
    /\ \E k \in 2..Len(equity) : equity[k].equity = equity[k-1].equity


\* ---------------------------------------------------------------------
\* C22: the Sharpe ratio of a finished run is never undefined (NaN), and
\* it is 0 when the equity curve yields fewer than two daily returns, a
\* run with at least one trade included.
C22_SharpeNeverUndefined ==
    pc = "done" =>
        /\ metrics.sharpe_ratio # "nan"
        /\ Len(equity) <= 2 => metrics.sharpe_ratio = "zero"


\* ---------------------------------------------------------------------
\* The strategy has no exit_condition block whose condition is set and
\* evaluates to a series
NoValidExitBlock ==
    \A k \in DOMAIN strategy.blocks :
        LET b == strategy.blocks[k] IN
        b.type = "exit_condition" =>
            \/ ConditionOf(b) = <<>>
            \/ evaluate_condition(df, ConditionOf(b)).kind = "None"

\* C26: generate_signals never emits signal = -1, so every sell is on a
\* bar with exit_signal = 1; for a strategy without a valid exit_condition
\* block a run records at most one buy and no sell, and the position once
\* opened stays open until the end of the series.
C26_NoSellWithoutExitBlock ==
    pc \in {"loop", "done"} =>
        /\ \A k \in 1..NumBars(df) : Signal(k) \in {0, 1}
        /\ \A k \in DOMAIN trades :
              IsSell(trades[k]) => ExitSignal(trades[k].date) = 1
        /\ NoValidExitBlock =>
              /\ \A k \in DOMAIN trades : IsBuy(trades[k])
              /\ Len(trades) <= 1
              /\ trades # <<>> => position = 1

C26_Witness ==
    /\ pc = "done"
    /\ NoValidExitBlock
    /\ \E k \in DOMAIN strategy.blocks :
          /\ strategy.blocks[k].type = "exit_condition"
          /\ ConditionOf(strategy.blocks[k]) # <<>>
    /\ NumBars(df) = MaxBars
    /\ Len(trades) = 1
    /\ trades[1].date = 1
    /\ Signal(2) = 0
    /\ Signal(MaxBars) = 1
    /\ position = 1


\* ---------------------------------------------------------------------
\* The closes and the two signal columns of the first t bars of a table
FirstBars(table, t) ==
    [c \in {"Close", "signal", "exit_signal"} \cap DOMAIN table |->
        SubSeq(table[c], 1, t)]

\* The locals after a run of the loop over the first t bars of a table
RECURSIVE LocalsAfter(_, _, _, _)
LocalsAfter(table, t, ic, comm) ==
    IF t = 0 THEN LocalsAtStart(ic)
    ELSE SimulateBar(table, t, LocalsAfter(table, t - 1, ic, comm), comm)

\* C25: the loop has no look-ahead: the trades and the equity points it
\* holds after bar t are those of a run, with the same capital and
\* commission, on the series cut after bar t; so two inputs whose closes
\* and signals agree up to bar t give the same trades and equity points
\* up to bar t, whatever the bars after t contain.
C25_NoLookAhead ==
    pc = "loop" =>
        LET cut == LocalsAfter(FirstBars(df, i - 1), i - 1,
                               initial_capital, commission)
        IN  /\ trades = cut.trades
            /\ equity = cut.equity

C25_Witness ==
    /\ pc = "loop"
    /\ i = 3
    /\ NumBars(df) = MaxBars
    /\ Len(trades) = 2
    /\ Signal(3) = 1
    /\ ExitSignal(MaxBars) = 1
    /\ df["Close"][MaxBars] # df["Close"][2]


\* ---------------------------------------------------------------------
\* C29: for every recorded sell with shares > 0, a positive entry price
\* and a commission rate in [0, 1), pnl_pct is strictly positive exactly
\* when pnl is strictly positive.  (pnl_pct is held by its numerator over
\* entry * CommDen, which is positive.)
C29_PnlAndPctAgreeInSign ==
    \A k \in DOMAIN trades :
        (/\ IsSell(trades[k])
         /\ trades[k].shares > 0
         /\ k > 1
         /\ trades[k - 1].price > 0
         /\ commission < CommDen)
        => (trades[k].pnl_pct > 0 <=> trades[k].pnl > 0)


\* ---------------------------------------------------------------------
\* C27: on the block canvas the saved strategy changes only when 'Save
\* Strategy' is pressed: adding, editing or deleting a block and creating
\* or deleting a connection after a save leave its blocks and connections
\* as they were saved.
C27_SavedStrategyChangesOnlyOnSave ==
    [][session_strategy' # session_strategy => SaveStrategy]_vars


----------------------------------------------------------------------------
(* app.py: display_strategy_builder, the builder of the one-file app.  Its
   strategy is st.session_state.strategy itself; its blocks have the types
   indicator, comparison, order and risk, and its connections the keys
   from and to. *)

MaxAppBlocks == 3

MaxAppConnections == 2

\* app.py lines 244-245
AppStrategyStart == [blocks |-> <<>>, connections |-> <<>>]

\* What the selectbox of an empty option list returns
NoOption == "None"

\* Everything but the strategy of the session
AppRest == <<Backtest, trade_stats, CreateCall, canvas_blocks,
             canvas_connections, blocks_aliased, connections_aliased, uuid,
             validation, strategy_name, exported_file>>

AppBlockTypes == {"indicator", "comparison", "order", "risk"}

\* lines 646-652, 723-728, 758-763 and 788-793: the block of a button of
\* the four tabs, with the values its widgets start with
AppBlock(block_type, id, blocks) ==
    LET available_indicators ==
            SelectSeq(blocks, LAMBDA b : b.type = "indicator")
    IN  CASE block_type = "indicator" ->
                [id |-> id, type |-> "indicator", name |-> "RSI 14",
                 parameters |-> [period |-> 14, applied_to |-> "Close"]]
          [] block_type = "comparison" ->
                [id |-> id, type |-> "comparison", name |-> "New Condition",
                 parameters |-> [left |-> available_indicators[1].name,
                                 operator |-> ">",
                                 right |-> available_indicators[1].name]]
          [] block_type = "order" ->
                [id |-> id, type |-> "order", name |-> "Buy Order",
                 parameters |-> [action |-> "buy", quantity |-> "100%"]]
          [] block_type = "risk" ->
                [id |-> id, type |-> "risk", name |-> "Stop Loss",
                 parameters |-> [type |-> "stop_loss", amount |-> "2%"]]

\* lines 645-657, 704-733, 756-769 and 786-799: 'Add RSI', 'Add Condition'
\* (shown only with an indicator among the blocks), 'Add Order' and 'Add
\* Risk Block'
AppAddBlock(block_type) ==
    /\ pc = "idle"
    /\ Len(session_strategy.blocks) < MaxAppBlocks
    /\ block_type = "comparison" =>
          \E b \in Range(session_strategy.blocks) : b.type = "indicator"
    /\ LET new_block_id ==
              "block_" \o ToString(Len(session_strategy.blocks) + 1)
       IN  session_strategy' =
              [session_strategy EXCEPT
                 !.blocks = Append(@, AppBlock(block_type, new_block_id,
                                               session_strategy.blocks))]
    /\ UNCHANGED AppRest

\* lines 816-821: the options of 'From'
SourceOptions(blocks) ==
    LET ids == {b.id : b \in {x \in Range(blocks) :
                                x.type \in {"indicator", "comparison"}}}
    IN  IF ids = {} THEN {NoOption} ELSE ids

\* lines 823-828: the options of 'To'
TargetOptions(blocks) ==
    LET ids == {b.id : b \in {x \in Range(blocks) :
                                x.type \in {"comparison", "order", "risk"}}}
    IN  IF ids = {} THEN {NoOption} ELSE ids

\* lines 809 and 830-851: 'Create Connection'
AppCreateConnection(source_id, target_id) ==
    /\ pc = "idle"
    /\ Len(session_strategy.blocks) >= 2
    /\ source_id \in SourceOptions(session_strategy.blocks)
    /\ target_id \in TargetOptions(session_strategy.blocks)
    /\ LET existing_conn ==
              \E c \in Range(session_strategy.connections) :
                  c.from = source_id /\ c.to = target_id
       IN  IF existing_conn
           THEN UNCHANGED session_strategy
           ELSE /\ Len(session_strategy.connections) < MaxAppConnections
                /\ session_strategy' =
                      [session_strategy EXCEPT
                         !.connections =
                            Append(@, [from |-> source_id, to |-> target_id])]
    /\ UNCHANGED AppRest

\* lines 321-327: 'Clear Strategy'
AppClearStrategy ==
    /\ pc = "idle"
    /\ session_strategy' = [name |-> strategy_name, blocks |-> <<>>,
                            connections |-> <<>>]
    /\ UNCHANGED AppRest

InitAppBuilder ==
    /\ NoBacktest
    /\ trade_stats = NotShown
    /\ CreateCallStart
    /\ canvas_blocks = <<>>
    /\ canvas_connections = <<>>
    /\ blocks_aliased = FALSE
    /\ connections_aliased = FALSE
    /\ uuid = 0
    /\ validation = NoMessages
    /\ strategy_name = DefaultName
    /\ exported_file = NoFile
    /\ session_strategy = AppStrategyStart

NextAppBuilder ==
    \/ \E block_type \in AppBlockTypes : AppAddBlock(block_type)
    \/ \E source_id \in SourceOptions(session_strategy.blocks),
          target_id \in TargetOptions(session_strategy.blocks) :
          AppCreateConnection(source_id, target_id)
    \/ AppClearStrategy

SpecAppBuilder == InitAppBuilder /\ [][NextAppBuilder]_vars

\* ---------------------------------------------------------------------
\* The block canvas stores no connection of a block to itself
CanvasHasNoSelfConnection ==
    \A c \in Range(canvas_connections) : c.source_id # c.target_id

\* C23: no builder path stores a connection whose source block and
\* target block are the same block; here the builder of app.py: after any
\* sequence of its operations no connection of the strategy has from = to.
C23_NoSelfConnection ==
    \A c \in Range(session_strategy.connections) : c.from # c.to


\* ---------------------------------------------------------------------
\* The window of `period` deltas that ends on bar k holds no loss
NoLossInWindow(k, period) ==
    \A j \in (k - period + 1)..k : df["Close"][j] >= df["Close"][j - 1]

\* C24: on every bar with a full window of `period` deltas without a
\* loss, the RSI column holds 100, the flat window included; the
\* computation does not raise.
C24_RsiIsHundredWithoutLosses ==
    /\ pc # "raised"
    /\ pc \in {"loop", "done"} =>
          \A b \in Range(strategy.blocks) :
              b.type = "rsi" =>
                  \A k \in (PeriodOf(b) + 1)..NumBars(df) :
                      NoLossInWindow(k, PeriodOf(b)) =>
                          LET rsi == df[RsiColumn(PeriodOf(b))][k]
                          IN  rsi.den # 0 /\ rsi.num = 100 * rsi.den

\* With at least one gain and no loss in the window the RSI is 100
RsiIsHundredOnGainsOnly ==
    pc \in {"loop", "done"} =>
        \A b \in Range(strategy.blocks) :
            b.type = "rsi" =>
                \A k \in (PeriodOf(b) + 1)..NumBars(df) :
                    (/\ NoLossInWindow(k, PeriodOf(b))
                     /\ \E j \in (k - PeriodOf(b) + 1)..k :
                           df["Close"][j] > df["Close"][j - 1])
                    => LET rsi == df[RsiColumn(PeriodOf(b))][k]
                       IN  rsi.den # 0 /\ rsi.num = 100 * rsi.den


----------------------------------------------------------------------------
(* app.py: display_backtester, the loop behind 'Run Backtest' (lines
   1216-1264) and its results (1266-1292).  The position and the equity
   are floats that need not be whole: they are held as reduced ratios
   num/den of integers, so the arithmetic of the model is exact. *)

RECURSIVE Gcd(_, _)
Gcd(a, b) == IF b = 0 THEN a ELSE Gcd(b, a % b)

\* The ratio n/d (d > 0), reduced
Ratio(n, d) ==
    LET g == Gcd(AbsInt(n), d) IN [num |-> n \div g, den |-> d \div g]

RatioOf(n) == [num |-> n, den |-> 1]

Plus(p, q) == Ratio(p.num * q.den + q.num * p.den, p.den * q.den)

Minus(p, q) == Ratio(p.num * q.den - q.num * p.den, p.den * q.den)

Times(p, q) == Ratio(p.num * q.num, p.den * q.den)

\* p / n for an integer n > 0
Over(p, n) == Ratio(p.num, p.den * n)

\* The closes and the two signal series of the backtester; lines 1143-1214
\* compute the signals from the chosen strategy, here they are any two
\* series of booleans.
AppPrices == {10, 12}

SignalPairs == [buy : BOOLEAN, sell : BOOLEAN]

AppInputs ==
    UNION {[1..n -> AppPrices \X SignalPairs] : n \in 0..MaxBars}

AppTable(rows) ==
    [Close        |-> [k \in DOMAIN rows |-> rows[k][1]],
     buy_signals  |-> [k \in DOMAIN rows |-> rows[k][2].buy],
     sell_signals |-> [k \in DOMAIN rows |-> rows[k][2].sell]]

\* The session before 'Run Backtest' is pressed
InitApp ==
    /\ \E rows \in AppInputs : /\ df = AppTable(rows)
                                /\ data = DataOf(df["Close"])
    /\ strategy = EmptyStrategy
    /\ initial_capital = 1000
    /\ commission \in Commissions
    /\ risk_per_trade = DefaultRisk
    /\ pc = "start"
    /\ i = 1
    /\ position = 0
    /\ capital = 0
    /\ shares = 0
    /\ entry_price = 0
    /\ trades = <<>>
    /\ equity = <<>>
    /\ final_equity = 0
    /\ metrics = ZeroMetrics
    /\ prev = NoCall
    /\ SessionStart

\* What the loop of the app does not write
AppOther == <<Session, Arguments, df, capital, shares, prev>>

\* lines 1217-1220: the equity series starts at initial_capital on every
\* bar
AppStart ==
    /\ pc = "start"
    /\ equity' = [k \in 1..NumBars(df) |-> RatioOf(initial_capital)]
    /\ position' = RatioOf(0)
    /\ entry_price' = 0
    /\ trades' = <<>>
    /\ i' = 2
    /\ pc' = "loop"
    /\ UNCHANGED <<AppOther, final_equity, metrics>>

\* lines 1222-1264: one iteration of `for i in range(1, len(data))`
AppLoopBody ==
    /\ pc = "loop"
    /\ i <= NumBars(df)
    /\ LET close == df["Close"][i] IN
       IF df["buy_signals"][i] /\ position.num = 0
       THEN /\ entry_price' = close
            /\ position' = Over(equity[i - 1], close)
            /\ trades' = Append(trades,
                             [type |-> "buy", date |-> i, price |-> close,
                              shares |-> Over(equity[i - 1], close)])
            /\ UNCHANGED equity
       ELSE IF df["sell_signals"][i] /\ position.num > 0
       THEN LET gross == Times(position, RatioOf(close - entry_price))
                fees  == Times(position,
                               Ratio((entry_price + close) * commission,
                                     CommDen))
                pnl   == Minus(gross, fees)
            IN  /\ equity' = [equity EXCEPT ![i] = Plus(equity[i - 1], pnl)]
                /\ trades' = Append(trades,
                                 [type |-> "sell", date |-> i, price |-> close,
                                  shares |-> position, pnl |-> pnl])
                /\ position' = RatioOf(0)
                /\ entry_price' = 0
       ELSE /\ equity' =
                 [equity EXCEPT ![i] =
                     IF position.num > 0
                     THEN Plus(equity[i - 1],
                               Times(position,
                                     RatioOf(close - df["Close"][i - 1])))
                     ELSE equity[i - 1]]
            /\ UNCHANGED <<position, entry_price, trades>>
    /\ i' = i + 1
    /\ UNCHANGED <<AppOther, pc, final_equity, metrics>>

\* lines 1266-1292: the results kept in the session.  equity.iloc[-1] of an
\* empty series raises; annual_return and max_drawdown are not held here.
AppFinish ==
    /\ pc = "loop"
    /\ i > NumBars(df)
    /\ IF NumBars(df) = 0
       THEN /\ pc' = "raised"
            /\ UNCHANGED <<final_equity, metrics>>
       ELSE LET last == equity[Len(equity)]
                Won(t)  == "pnl" \in DOMAIN t /\ t.pnl.num > 0
                Sold(t) == t.type = "sell"
            IN  /\ final_equity' = last
                /\ metrics' =
                      [total_return |->
                           Over(Times(Minus(last, RatioOf(initial_capital)),
                                      RatioOf(100)), initial_capital),
                       total_trades |-> Len(SelectSeq(trades, Sold)),
                       win_trades   |-> Len(SelectSeq(trades, Won))]
                /\ pc' = "done"
    /\ UNCHANGED <<AppOther, i, position, entry_price, trades, equity>>

NextApp == AppStart \/ AppLoopBody \/ AppFinish

SpecApp == InitApp /\ [][NextApp]_vars

\* ---------------------------------------------------------------------
\* The sum of the pnl of the sells recorded up to bar k
RECURSIVE PnlUpTo(_, _)
PnlUpTo(trds, k) ==
    IF trds = <<>> THEN RatioOf(0)
    ELSE LET rest == PnlUpTo(Tail(trds), k)
             t    == Head(trds)
         IN  IF IsSell(t) /\ t.date <= k THEN Plus(t.pnl, rest) ELSE rest

\* No position is open at the end of bar k: no buy at or before k is
\* still waiting for its sell
FlatAtEndOf(k) ==
    LET upto == SelectSeq(trades, LAMBDA t : t.date <= k)
    IN  upto = <<>> \/ IsSell(upto[Len(upto)])

\* C28: in the backtest loop of app.py, on every bar at whose end no
\* position is open, the equity equals initial_capital plus the pnl of
\* all sells recorded up to that bar.
C28_AppEquityIsCapitalPlusPnl ==
    pc \in {"loop", "done"} =>
        \A k \in DOMAIN equity :
            k < i /\ FlatAtEndOf(k) =>
                equity[k] = Plus(RatioOf(initial_capital), PnlUpTo(trades, k))


----------------------------------------------------------------------------
(* components/paper_trading.py: run_paper_trading_simulation *)

\* int(n / d) for d > 0: the fraction is cut towards zero
Trunc(n, d) == IF n >= 0 THEN n \div d ELSE -((-n) \div d)

\* line 146: the assumed maximum loss per trade, 0.02, is 1 / MaxLossInverse
MaxLossInverse == 50

\* lines 142-146: the share count sized by the risk
RiskSizedShares(current_equity, risk, close) ==
    Trunc(current_equity * risk * MaxLossInverse, close * CommDen * RiskDen)

\* line 149
MaxShares(cap, comm, close) ==
    Trunc(cap * (CommDen - comm), CommDen * CommDen * close)

\* line 150
PaperShares(current_equity, cap, comm, risk, close) ==
    LET by_risk == RiskSizedShares(current_equity, risk, close)
        max_shares == MaxShares(cap, comm, close)
    IN  IF by_risk < max_shares THEN by_risk ELSE max_shares

\* A position entered whatever the share count is
EntersPositionAlways(sh) == TRUE

\* line 152
EntersPosition(sh) == sh > 0

\* lines 133-193: the locals after the body of the loop has run on bar k
PaperBar(table, k, st, comm, risk) ==
    LET close == table["Close"][k]
        current_equity ==
            EquityValue(st.position, st.capital, st.shares, close)
        history == Append(st.equity,
                          [date |-> k, equity |-> current_equity])
        sized == PaperShares(current_equity, st.capital, comm, risk, close)
    IN  IF RowGet(table, k, "signal", 0) = 1 /\ st.position = 0
        THEN IF EntersPosition(sized)
             THEN [position    |-> 1,
                   capital     |-> st.capital - BuyCost(sized, close, comm),
                   shares      |-> sized,
                   entry_price |-> close,
                   trades      |-> Append(st.trades,
                                       BuyTrade(k, close, sized, comm)),
                   equity      |-> history]
             ELSE [st EXCEPT !.shares = sized, !.equity = history]
        ELSE IF SellSignal(table, k, st.position)
        THEN [position    |-> 0,
              capital     |-> st.capital
                              + SellProceeds(st.shares, close, comm),
              shares      |-> 0,
              entry_price |-> 0,
              trades      |-> Append(st.trades,
                                  SellTrade(k, close, st.shares,
                                            st.entry_price, comm)),
              equity      |-> history]
        ELSE [st EXCEPT !.equity = history]

\* lines 207-241: the metrics of the simulation; no equity point, no entry
PaperMetrics(eq, trds) ==
    IF eq = <<>> THEN EmptyDict
    ELSE LET sell_trades == SelectSeq(trds, LAMBDA t : t.type = "sell")
             total   == Len(sell_trades)
             winning == Len(SelectSeq(sell_trades, LAMBDA t : t.pnl > 0))
         IN  [total_return   |-> Frac((eq[Len(eq)].equity - eq[1].equity) * 100,
                                      eq[1].equity),
              total_trades   |-> total,
              winning_trades |-> winning,
              losing_trades  |-> total - winning,
              win_rate       |-> IF total > 0 THEN Frac(winning * 100, total)
                                 ELSE Frac(0, 1),
              profit_factor  |-> IF trds = <<>> THEN Frac(0, 1)
                                 ELSE ProfitFactor(sell_trades)]

PaperCapitals == {5, 11, 1000}

\* A negative rate, no risk, the default, and rates that size more shares
\* than the cash can buy
PaperRisks == {-1, 0, 1, 2, 10}

InitPaper ==
    /\ data \in {DataOf(c) : c \in CloseSeries}
    /\ strategy \in CashStrategies
    /\ initial_capital \in PaperCapitals
    /\ commission \in Commissions
    /\ risk_per_trade \in PaperRisks
    /\ pc = "start"
    /\ df = data
    /\ i = 1
    /\ position = 0
    /\ capital = 0
    /\ shares = 0
    /\ entry_price = 0
    /\ trades = <<>>
    /\ equity = <<>>
    /\ final_equity = 0
    /\ metrics = ZeroMetrics
    /\ prev = NoCall
    /\ SessionStart

\* lines 112-126: the call of execute_strategy and the locals of the loop
PaperStart ==
    /\ pc = "start"
    /\ IF ExecuteRaises(strategy)
       THEN /\ pc' = "raised"
            /\ UNCHANGED <<df, i, position, capital, shares, entry_price,
                           trades, equity>>
       ELSE /\ df' = execute_strategy(data, strategy)
            /\ capital' = initial_capital * CommDen
            /\ position' = 0
            /\ shares' = 0
            /\ entry_price' = 0
            /\ trades' = <<>>
            /\ equity' = <<>>
            /\ i' = 1
            /\ pc' = "loop"
    /\ UNCHANGED <<Session, Arguments, final_equity, metrics, prev>>

\* lines 129-193: one iteration of the loop, on bar i
PaperLoopBody ==
    /\ pc = "loop"
    /\ i <= NumBars(df)
    /\ LET after == PaperBar(df, i, Locals, commission, risk_per_trade) IN
       /\ position' = after.position
       /\ capital' = after.capital
       /\ shares' = after.shares
       /\ entry_price' = after.entry_price
       /\ trades' = after.trades
       /\ equity' = after.equity
    /\ i' = i + 1
    /\ UNCHANGED <<Session, Arguments, pc, df, final_equity, metrics, prev>>

\* lines 195-253: the final equity, the metrics and the return
PaperFinish ==
    /\ pc = "loop"
    /\ i > NumBars(df)
    /\ final_equity' = FinalEquity(position, capital, shares, df)
    /\ metrics' = PaperMetrics(equity, trades)
    /\ pc' = "done"
    /\ UNCHANGED <<Session, Arguments, df, i, position, capital, shares,
                   entry_price, trades, equity, prev>>

NextPaper == PaperStart \/ PaperLoopBody \/ PaperFinish

SpecPaper == InitPaper /\ [][NextPaper]_vars

\* ---------------------------------------------------------------------
\* The share count the simulation sizes on bar i
SizedOnBar ==
    PaperShares(EquityValue(position, capital, shares, df["Close"][i]),
                capital, commission, risk_per_trade, df["Close"][i])

\* C30: the paper trading simulation is never LONG with zero shares and
\* records no zero-share buy; a buy signal while FLAT opens a position
\* only if the smaller of the risk-sized share count and the share count
\* the cash can buy is greater than 0, and otherwise leaves the cash, the
\* position and the trade log as they are.
C30_PaperNeverLongWithoutShares ==
    /\ [](position = 1 => shares > 0)
    /\ [](\A k \in DOMAIN trades : IsBuy(trades[k]) => trades[k].shares > 0)
    /\ [][(PaperLoopBody /\ Signal(i) = 1 /\ position = 0) =>
            IF SizedOnBar > 0
            THEN /\ position' = 1
                 /\ shares' = SizedOnBar
                 /\ Len(trades') = Len(trades) + 1
            ELSE UNCHANGED <<capital, position, trades>>]_vars

C30_Witness ==
    /\ pc = "done"
    /\ NumBars(df) = MaxBars
    /\ Signal(1) = 1
    /\ Signal(2) = 1
    /\ \A k \in DOMAIN trades : trades[k].date > 1
    /\ \E k \in DOMAIN trades : IsBuy(trades[k])
    /\ risk_per_trade > 0

====
